---- MODULE Spec2Model ----
(***************************************************************************)
(* Model of the tredparse server methods (api/documents/methods.js):       *)
(* documents.upsert, documents.remove, docker.hli, docker.public, the      *)
(* exec completion callback and the rate limit rule registered on the      *)
(* two document methods.                                                   *)
(*                                                                         *)
(* Ids and method names, which the program only compares, are TLA+        *)
(* strings.  Every other JavaScript string (commands, titles, stdout,      *)
(* stderr, error messages, bodies) is a run-length encoded text: a         *)
(* sequence of runs [c |-> character, n |-> repetitions], no two           *)
(* neighbouring runs of the same character, so that a text of a million    *)
(* characters is one run.                                                  *)
(***************************************************************************)
EXTENDS Integers, Sequences, FiniteSets, Bags, TLC

VARIABLES
    store,          \* the Documents collection: _id -> Record
    running,        \* bag of exec children whose callback has not run yet
    crashed,        \* an exec callback threw: the server process is gone
    now,            \* the clock, in ms
    lastResetTime,  \* rate limit rule: start of the current window
    counters,       \* rate limit rule: <<method name, connection>> -> calls
    last,           \* the last method call: name, argument, outcome
    calls,          \* number of method calls made so far
    execLog,        \* per dispatch method and command: spawns and skips
    overlap,        \* commands spawned while another child ran the same one
    direct,         \* titles written or overwritten by documents.upsert
    removed,        \* titles of the Records documents.remove deleted
    given           \* (err, stdout, stderr) the last exec callback was given

vars == <<store, running, crashed, now, lastResetTime, counters, last,
          calls, execLog, overlap, direct, removed, given>>

----------------------------------------------------------------------------
(* Bounds of the model. *)

MaxCalls == 2
MaxStoreCalls == 3
MaxRateCalls == 7
MaxTicks == 3
MaxCaptureCalls == 2
MaxGatewayCalls == 2

----------------------------------------------------------------------------
(* Optional values: a key of a JavaScript object that may be missing. *)

None == <<>>
Some(v) == <<v>>
IsSome(o) == o /= <<>>
Get(o) == o[1]

----------------------------------------------------------------------------
(* Run-length encoded texts. *)

EmptyText == <<>>

Run(ch, k) == [c |-> ch, n |-> k]

\* The text of k repetitions of character ch.
Rep(ch, k) == IF k = 0 THEN EmptyText ELSE <<Run(ch, k)>>

\* String concatenation, the two runs that meet merged when alike.
TextConcat(a, b) ==
    IF a = <<>> THEN b
    ELSE IF b = <<>> THEN a
    ELSE IF a[Len(a)].c = b[1].c
         THEN SubSeq(a, 1, Len(a) - 1)
              \o <<Run(b[1].c, a[Len(a)].n + b[1].n)>>
              \o Tail(b)
         ELSE a \o b

\* The texts of a sequence, concatenated (by halves, to keep the nesting low).
RECURSIVE ConcatAll(_)
ConcatAll(ts) ==
    IF Len(ts) = 0 THEN EmptyText
    ELSE IF Len(ts) = 1 THEN ts[1]
    ELSE LET m == Len(ts) \div 2
         IN  TextConcat(ConcatAll(SubSeq(ts, 1, m)),
                        ConcatAll(SubSeq(ts, m + 1, Len(ts))))

\* A text from its characters, one string of length one each.
Str(chars) == ConcatAll([i \in DOMAIN chars |-> Rep(chars[i], 1)])

\* The number of characters of t.
RECURSIVE TextLen(_)
TextLen(t) ==
    IF Len(t) = 0 THEN 0
    ELSE IF Len(t) = 1 THEN t[1].n
    ELSE LET m == Len(t) \div 2
         IN  TextLen(SubSeq(t, 1, m)) + TextLen(SubSeq(t, m + 1, Len(t)))

\* The first k characters of t (all of t when it is shorter), by halves.
RECURSIVE TextTake(_, _)
TextTake(t, k) ==
    IF k <= 0 \/ Len(t) = 0 THEN EmptyText
    ELSE IF Len(t) = 1 THEN Rep(t[1].c, IF k < t[1].n THEN k ELSE t[1].n)
    ELSE LET m  == Len(t) \div 2
             la == TextLen(SubSeq(t, 1, m))
         IN  IF k <= la THEN TextTake(SubSeq(t, 1, m), k)
             ELSE SubSeq(t, 1, m) \o TextTake(SubSeq(t, m + 1, Len(t)), k - la)

\* t without its first k characters.
RECURSIVE TextDrop(_, _)
TextDrop(t, k) ==
    IF k <= 0 \/ Len(t) = 0 THEN t
    ELSE IF Len(t) = 1 THEN Rep(t[1].c, IF k < t[1].n THEN t[1].n - k ELSE 0)
    ELSE LET m  == Len(t) \div 2
             la == TextLen(SubSeq(t, 1, m))
         IN  IF k < la THEN TextDrop(SubSeq(t, 1, m), k) \o SubSeq(t, m + 1, Len(t))
             ELSE TextDrop(SubSeq(t, m + 1, Len(t)), k - la)

----------------------------------------------------------------------------
(* JSON.stringify({ error: s }) and its inverse, on run-length texts. *)

RECURSIVE RepeatText(_, _)
RepeatText(t, k) == IF k = 0 THEN EmptyText ELSE TextConcat(t, RepeatText(t, k - 1))

\* JSON string escaping of one run: backslash and quote get a backslash,
\* a newline becomes backslash n.
EscapeRun(h) ==
    IF h.c = "\\" THEN Rep("\\", 2 * h.n)
    ELSE IF h.c = "\"" THEN RepeatText(Str(<<"\\", "\"">>), h.n)
    ELSE IF h.c = "\n" THEN RepeatText(Str(<<"\\", "n">>), h.n)
    ELSE <<h>>

JsonEscape(t) == ConcatAll([i \in DOMAIN t |-> EscapeRun(t[i])])

ErrorKeyOpen == Str(<<"{", "\"", "e", "r", "r", "o", "r", "\"", ":", "\"">>)
ErrorKeyClose == Str(<<"\"", "}">>)

\* JSON.stringify({ error: s })
JsonStringifyError(s) == ConcatAll(<<ErrorKeyOpen, JsonEscape(s), ErrorKeyClose>>)

\* Run i of a JSON string body t follows a backslash that escapes its first
\* character: the run of backslashes before it is odd.
Escaped(t, i) == i > 1 /\ t[i - 1].c = "\\" /\ t[i - 1].n % 2 = 1

\* Run i is well formed: an odd run of backslashes is followed by a quote or
\* an n, and no quote or newline stands unescaped.
RunOk(t, i) ==
    IF t[i].c = "\\"
    THEN t[i].n % 2 = 0 \/ (i < Len(t) /\ t[i + 1].c \in {"\"", "n"})
    ELSE t[i].c \notin {"\"", "\n"} \/ (Escaped(t, i) /\ t[i].n = 1)

\* What run i stands for.
UnescapeRun(t, i) ==
    IF t[i].c = "\\" THEN Rep("\\", t[i].n \div 2)
    ELSE IF Escaped(t, i)
         THEN TextConcat(Rep(IF t[i].c = "n" THEN "\n" ELSE t[i].c, 1),
                         Rep(t[i].c, t[i].n - 1))
         ELSE <<t[i]>>

\* JSON.parse(body).error when body is {"error":"..."}; None otherwise.
JsonParseError(body) ==
    LET lo == TextLen(ErrorKeyOpen)
        lc == TextLen(ErrorKeyClose)
        l  == TextLen(body)
    IN  IF l < lo + lc THEN None
        ELSE IF TextTake(body, lo) /= ErrorKeyOpen THEN None
        ELSE IF TextDrop(body, l - lc) /= ErrorKeyClose THEN None
        ELSE LET t == TextTake(TextDrop(body, lo), l - lo - lc)
             IN  IF \A i \in DOMAIN t : RunOk(t, i)
                 THEN Some(ConcatAll([i \in DOMAIN t |-> UnescapeRun(t, i)]))
                 ELSE None

----------------------------------------------------------------------------
(* Constants of the program. *)

\* Variants of the definitions below, each wrong in one respect.
DoubleBuffer == 2 * 1024 * 1000
SixCalls == 5 + 1

limit == 5
timeRange == 1000
maxBuffer == 1024 * 1000

RateLimitedMethods == {"documents.upsert", "documents.remove"}

\* "docker run --rm tanghaibao/tredparse "
HLIPrefix ==
    Str(<<"d", "o", "c", "k", "e", "r", " ", "r", "u", "n", " ", "-", "-", "r", "m",
          " ", "t", "a", "n", "g", "h", "a", "i", "b", "a", "o", "/", "t", "r", "e",
          "d", "p", "a", "r", "s", "e", " ">>)

\* "docker run --rm tanghaibao/tredparse-public "
PublicPrefix ==
    Str(<<"d", "o", "c", "k", "e", "r", " ", "r", "u", "n", " ", "-", "-", "r", "m",
          " ", "t", "a", "n", "g", "h", "a", "i", "b", "a", "o", "/", "t", "r", "e",
          "d", "p", "a", "r", "s", "e", "-", "p", "u", "b", "l", "i", "c", " ">>)

Methods == {"documents.upsert", "documents.remove", "docker.hli", "docker.public"}

----------------------------------------------------------------------------
(* The values the callers and the external processes are drawn from. *)

CmdA == Str(<<"a">>)
CmdB == Str(<<"b">>)
Cmds == {CmdA, CmdB}
Ids == {"i1"}
Conns == {"k1", "k2"}

Null == [message |-> None]
Error(msg) == [message |-> Some(msg)]

\* One clock step: half a rate limit window.
TickMs == timeRange \div 2

----------------------------------------------------------------------------
(* The Documents collection. *)

Fields == {"title", "body", "stderr", "createdAt"}

\* Random.id(): an id no Record of the collection has.
RandomId(s) ==
    LET free(k) == ("r" \o ToString(k)) \notin DOMAIN s
        k == CHOOSE i \in 1..(Cardinality(DOMAIN s) + 1) :
                 free(i) /\ \A j \in 1..(i - 1) : ~free(j)
    IN  "r" \o ToString(k)

\* { $set: set } applied to Record r: the fields listed overwrite, the
\* others are retained.
ApplySet(r, set) == [f \in Fields |-> IF IsSome(set[f]) THEN set[f] ELSE r[f]]

NoFields == [f \in Fields |-> None]

\* The _id an upsert with selector { _id: id } writes to: a missing _id
\* matches nothing and the insert draws a fresh id.
UpsertTarget(s, id) == IF IsSome(id) THEN Get(id) ELSE RandomId(s)

\* Documents.upsert({ _id: id }, { $set: set })
DocumentsUpsert(s, id, set) ==
    LET t == UpsertTarget(s, id)
    IN  IF t \in DOMAIN s
        THEN [s EXCEPT ![t] = ApplySet(@, set)]
        ELSE [i \in DOMAIN s \cup {t} |->
                 IF i = t THEN ApplySet(NoFields, set) ELSE s[i]]

\* Documents.remove(id)
DocumentsRemove(s, id) == [i \in DOMAIN s \ {id} |-> s[i]]

\* Documents.find({ title: t }).count()
FindTitleCount(s, t) == Cardinality({i \in DOMAIN s : s[i].title = Some(t)})

----------------------------------------------------------------------------
(* The rate limit rule: rateLimit({ methods, limit, timeRange }) adds one  *)
(* rule that matches the listed methods on every connection.  A call is    *)
(* counted, then checked; the counters of the rule are all dropped when    *)
(* more than timeRange has passed since they were last dropped.            *)

RateKeys == Methods \X Conns
NoCounters == [k \in RateKeys |-> 0]

RuleMatches(method) == method \in RateLimitedMethods

ResetDue == now - lastResetTime > timeRange

\* The counters after the call is counted.
Increment(method, conn) ==
    IF ~RuleMatches(method) THEN counters
    ELSE [(IF ResetDue THEN NoCounters ELSE counters)
             EXCEPT ![<<method, conn>>] = @ + 1]

\* Whether the call, once counted, passes.
Allowed(method, conn) ==
    ~RuleMatches(method) \/ Increment(method, conn)[<<method, conn>>] <= limit

\* The limiter's part of every method call.
Limiter(method, conn) ==
    /\ counters' = Increment(method, conn)
    /\ lastResetTime' = IF RuleMatches(method) /\ ResetDue THEN now
                        ELSE lastResetTime

----------------------------------------------------------------------------
(* child_process.exec(cmd, { maxBuffer }, callback): what the callback is   *)
(* given for a child that failed to start, or wrote the chunks out and err  *)
(* and exited.  Output beyond maxBuffer is not delivered: the stream is cut *)
(* at maxBuffer, or (earlier Node versions) the chunk that crosses it is     *)
(* dropped; either way the child is killed and err says so.  The error of a *)
(* child that exits with a failure quotes the command line and the stderr.  *)

SpawnMessage ==
    Str(<<"s", "p", "a", "w", "n", " ", "/", "b", "i", "n", "/", "s", "h", " ",
          "E", "N", "O", "E", "N", "T">>)

MaxBufferMessage ==
    Str(<<"m", "a", "x", "B", "u", "f", "f", "e", "r", " ", "e", "x", "c", "e",
          "e", "d", "e", "d">>)

FailedMessage(cmd, stderr) ==
    ConcatAll(<<Str(<<"C", "o", "m", "m", "a", "n", "d", " ", "f", "a", "i", "l",
                      "e", "d", ":", " ">>),
                cmd, Str(<<"\n">>), stderr>>)

CaptureModes == {"cut", "drop"}

RECURSIVE CaptureDrop(_, _)
CaptureDrop(chunks, room) ==
    IF chunks = <<>> THEN EmptyText
    ELSE IF TextLen(Head(chunks)) > room THEN EmptyText
    ELSE TextConcat(Head(chunks),
                    CaptureDrop(Tail(chunks), room - TextLen(Head(chunks))))

Capture(chunks, max, mode) ==
    IF mode = "cut" THEN TextTake(ConcatAll(chunks), max)
    ELSE CaptureDrop(chunks, max)

Overflows(chunks, max) == TextLen(ConcatAll(chunks)) > max

\* (err, stdout, stderr) as the callback receives them.
Exec(cmd, b, max, mode) ==
    IF b.status = "spawn-error"
    THEN [err |-> Error(SpawnMessage), stdout |-> EmptyText, stderr |-> EmptyText]
    ELSE LET stdout == Capture(b.out, max, mode)
             stderr == Capture(b.err, max, mode)
         IN  [err    |-> IF Overflows(b.out, max) \/ Overflows(b.err, max)
                         THEN Error(MaxBufferMessage)
                         ELSE IF b.status = "exit-0" THEN Null
                         ELSE Error(FailedMessage(cmd, stderr)),
              stdout |-> stdout,
              stderr |-> stderr]

\* err.toString() of an Error
ErrToString(err) ==
    TextConcat(Str(<<"E", "r", "r", "o", "r", ":", " ">>), Get(err.message))

----------------------------------------------------------------------------
(* The record of the last method call. *)

\* repeat: the call before it was the same method with the same argument.
Called(method, conn, document) ==
    [method |-> method, conn |-> conn, document |-> document,
     status |-> IF Allowed(method, conn) THEN "ok" ELSE "too-many-requests",
     repeat |-> last.method = method /\ last.document = document]

NoCall == [method |-> "none", conn |-> "none", document |-> [_id |-> None],
           status |-> "none", repeat |-> FALSE]

----------------------------------------------------------------------------
(* documents.upsert and documents.remove *)

TitlesOf(s, ids) == {Get(s[i].title) : i \in {j \in ids \cap DOMAIN s : IsSome(s[j].title)}}

\* The titles a documents.upsert call writes or overwrites.
UpsertTouches(s, document) ==
    (IF IsSome(document.title) THEN {Get(document.title)} ELSE {})
    \cup (IF IsSome(document._id) THEN TitlesOf(s, {Get(document._id)}) ELSE {})

\* A documents.upsert that never selects by the _id it is given.
InsertDocumentRun(s, document) ==
    DocumentsUpsert(s, None,
                    [title     |-> document.title,
                     body      |-> document.body,
                     stderr    |-> document.stderr,
                     createdAt |-> None])

\* upsertDocument.run(document)
UpsertDocumentRun(s, document) ==
    DocumentsUpsert(s, document._id,
                    [title     |-> document.title,
                     body      |-> document.body,
                     stderr    |-> document.stderr,
                     createdAt |-> None])

UpsertDocument(conn, document) ==
    /\ ~crashed
    /\ Limiter("documents.upsert", conn)
    /\ last' = Called("documents.upsert", conn, document)
    /\ IF Allowed("documents.upsert", conn)
       THEN /\ store' = UpsertDocumentRun(store, document)
            /\ direct' = direct \cup UpsertTouches(store, document)
       ELSE UNCHANGED <<store, direct>>
    /\ calls' = calls + 1
    /\ UNCHANGED <<running, crashed, now, execLog, overlap, removed, given>>

\* A removeDocument.run that gives the collection an empty selector.
RemoveAllRun(s, document) == [i \in {} |-> NoFields]

\* removeDocument.run({ _id })
RemoveDocumentRun(s, document) == DocumentsRemove(s, Get(document._id))

RemoveDocument(conn, document) ==
    /\ ~crashed
    /\ Limiter("documents.remove", conn)
    /\ last' = Called("documents.remove", conn, document)
    /\ IF Allowed("documents.remove", conn)
       THEN /\ store' = RemoveDocumentRun(store, document)
            /\ removed' = removed \cup TitlesOf(store, {Get(document._id)})
       ELSE UNCHANGED <<store, removed>>
    /\ calls' = calls + 1
    /\ UNCHANGED <<running, crashed, now, execLog, overlap, direct, given>>

----------------------------------------------------------------------------
(* docker.hli and docker.public *)

DockerMethods == {"docker.hli", "docker.public"}

Child(method, cmd, document) ==
    [method |-> method, cmd |-> cmd, document |-> document]

RunningCmds == {p.document.cmd : p \in BagToSet(running)}

\* The bookkeeping of a dispatch of command c that spawned (or skipped).
LogDispatch(method, c, spawns) ==
    /\ execLog' = [execLog EXCEPT ![method][c] =
                      IF spawns THEN [@ EXCEPT !.spawned = @ + 1]
                      ELSE [@ EXCEPT !.skipped = @ + 1]]
    /\ overlap' = IF spawns /\ c \in RunningCmds THEN overlap \cup {c}
                  ELSE overlap

\* Dedup checks that look at the wrong thing: the body instead of the title,
\* the _id instead of the title, only the Records that hold no error payload.
BodyAlreadyRun(s, document) ==
    \E i \in DOMAIN s : s[i].body = Some(document.cmd)

IdAlreadyRun(s, document) ==
    IsSome(document._id) /\ Get(document._id) \in DOMAIN s

SucceededAlreadyRun(s, document) ==
    \E i \in DOMAIN s :
        /\ s[i].title = Some(document.cmd)
        /\ ~(IsSome(s[i].body) /\ IsSome(JsonParseError(Get(s[i].body))))

\* A dedup check that counts only the Records that hold a body.
OutputAlreadyRun(s, document) ==
    \E i \in DOMAIN s : s[i].title = Some(document.cmd) /\ IsSome(s[i].body)

\* "If command already run, then skip"
HLIAlreadyRun(s, document) == FindTitleCount(s, document.cmd) > 0

HLICommand(document) == TextConcat(HLIPrefix, document.cmd)

\* HLIDocker.run(document), up to the exec call
HLIDocker(conn, document) ==
    /\ ~crashed
    /\ Limiter("docker.hli", conn)
    /\ last' = Called("docker.hli", conn, document)
    /\ IF ~Allowed("docker.hli", conn)
       THEN UNCHANGED <<running, execLog, overlap>>
       ELSE IF HLIAlreadyRun(store, document)
            THEN /\ running' = running
                 /\ LogDispatch("docker.hli", document.cmd, FALSE)
            ELSE /\ running' = running (+) SetToBag(
                        {Child("docker.hli", HLICommand(document), document)})
                 /\ LogDispatch("docker.hli", document.cmd, TRUE)
    /\ calls' = calls + 1
    /\ UNCHANGED <<store, crashed, now, direct, removed, given>>

PublicAlreadyRun(s, document) == FindTitleCount(s, document.cmd) > 0

PublicCommand(document) == TextConcat(PublicPrefix, document.cmd)

\* PublicDocker.run(document), up to the exec call
PublicDocker(conn, document) ==
    /\ ~crashed
    /\ Limiter("docker.public", conn)
    /\ last' = Called("docker.public", conn, document)
    /\ IF ~Allowed("docker.public", conn)
       THEN UNCHANGED <<running, execLog, overlap>>
       ELSE IF PublicAlreadyRun(store, document)
            THEN /\ running' = running
                 /\ LogDispatch("docker.public", document.cmd, FALSE)
            ELSE /\ running' = running (+) SetToBag(
                        {Child("docker.public", PublicCommand(document), document)})
                 /\ LogDispatch("docker.public", document.cmd, TRUE)
    /\ calls' = calls + 1
    /\ UNCHANGED <<store, crashed, now, direct, removed, given>>

----------------------------------------------------------------------------
(* The exec callbacks *)

\* stdout.toString() ? ... : JSON.stringify({ error: err.toString() })
\* throws a TypeError when stdout is empty and err is null.
HLIThrows(r) == r.stdout = EmptyText /\ r.err = Null

\* A callback that stores stdout as it is, empty or not.
RawStdoutText(r) == r.stdout

HLIStdoutText(r) ==
    IF r.stdout /= EmptyText THEN r.stdout
    ELSE JsonStringifyError(ErrToString(r.err))

\* const output = { title, body, stderr, createdAt }
HLIOutput(document, r, date) ==
    [title     |-> Some(document.cmd),
     body      |-> Some(HLIStdoutText(r)),
     stderr    |-> Some(r.stderr),
     createdAt |-> Some(date)]

\* output._id: output has no _id
HLIOutputId(document) == None

PublicThrows(r) == r.stdout = EmptyText /\ r.err = Null

PublicStdoutText(r) ==
    IF r.stdout /= EmptyText THEN r.stdout
    ELSE JsonStringifyError(ErrToString(r.err))

PublicOutput(document, r, date) ==
    [title     |-> Some(document.cmd),
     body      |-> Some(PublicStdoutText(r)),
     stderr    |-> Some(r.stderr),
     createdAt |-> Some(date)]

PublicOutputId(document) == None

Throws(p, r) ==
    IF p.method = "docker.hli" THEN HLIThrows(r) ELSE PublicThrows(r)

\* The store after the callback of child p, given r, has run to its end.
CallbackUpsert(s, p, r, date) ==
    IF p.method = "docker.hli"
    THEN DocumentsUpsert(s, HLIOutputId(p.document), HLIOutput(p.document, r, date))
    ELSE DocumentsUpsert(s, PublicOutputId(p.document),
                         PublicOutput(p.document, r, date))

\* Child p ends as b says and its callback runs.  An exception thrown in the
\* callback is uncaught there: it ends the server process.
ExecCallback(p, b, mode) ==
    /\ ~crashed
    /\ BagIn(p, running)
    /\ running' = running (-) SetToBag({p})
    /\ LET r == Exec(p.cmd, b, maxBuffer, mode)
       IN  /\ given' = r
           /\ IF Throws(p, r)
              THEN /\ crashed' = TRUE
                   /\ store' = store
              ELSE /\ crashed' = crashed
                   /\ store' = CallbackUpsert(store, p, r, now)
    /\ UNCHANGED <<now, lastResetTime, counters, last, calls, execLog,
                   overlap, direct, removed>>

\* Time passes.
Tick(ticks) ==
    /\ now < ticks * TickMs
    /\ now' = now + TickMs
    /\ UNCHANGED <<store, running, crashed, lastResetTime, counters, last,
                   calls, execLog, overlap, direct, removed, given>>

----------------------------------------------------------------------------
(* Inputs *)

OptionalOf(S) == {None} \cup {Some(x) : x \in S}

Hi == Str(<<"h", "i">>)
Warn == Str(<<"w">>)

\* Arguments of documents.upsert
UpsertDocs ==
    [_id    : OptionalOf(Ids \cup DOMAIN store),
     title  : OptionalOf(Cmds),
     body   : OptionalOf({Hi}),
     stderr : {None}]

\* Arguments of documents.remove
RemoveDocs == [_id : {Some(x) : x \in Ids \cup DOMAIN store}]

\* Arguments of docker.hli and docker.public
DockerDocs == [_id : OptionalOf(Ids), cmd : Cmds]

Behaviour(st, o, e) == [status |-> st, out |-> o, err |-> e]

\* What a child may do: fail to start, or write and exit.
Behaviours ==
    {Behaviour("spawn-error", <<>>, <<>>),
     Behaviour("exit-0", <<Hi>>, <<>>),
     Behaviour("exit-0", <<>>, <<>>),
     Behaviour("exit-1", <<>>, <<Warn>>),
     Behaviour("exit-1", <<Hi>>, <<Warn>>)}

----------------------------------------------------------------------------

Init ==
    /\ store = [i \in {} |-> NoFields]
    /\ running = EmptyBag
    /\ crashed = FALSE
    /\ now = 0
    /\ lastResetTime = 0
    /\ counters = NoCounters
    /\ last = NoCall
    /\ calls = 0
    /\ execLog = [m \in DockerMethods |-> [c \in Cmds |-> [spawned |-> 0, skipped |-> 0]]]
    /\ overlap = {}
    /\ direct = {}
    /\ removed = {}
    /\ given = [err |-> Null, stdout |-> EmptyText, stderr |-> EmptyText]

\* Every method, every argument, one connection; children that write less
\* than maxBuffer, for which the two capture modes agree.
Next ==
    \/ calls < MaxCalls /\ \E d \in UpsertDocs : UpsertDocument("k1", d)
    \/ calls < MaxCalls /\ \E d \in RemoveDocs : RemoveDocument("k1", d)
    \/ calls < MaxCalls /\ \E d \in DockerDocs : HLIDocker("k1", d)
    \/ calls < MaxCalls /\ \E d \in DockerDocs : PublicDocker("k1", d)
    \/ \E p \in BagToSet(running), b \in Behaviours : ExecCallback(p, b, "cut")

Spec == Init /\ [][Next]_vars

\* The two document methods alone, stderr among their arguments.
StoreDocs ==
    [_id    : OptionalOf(Ids \cup DOMAIN store),
     title  : OptionalOf(Cmds),
     body   : OptionalOf({Hi}),
     stderr : OptionalOf({Warn})]

NextStore ==
    \/ calls < MaxStoreCalls /\ \E d \in StoreDocs : UpsertDocument("k1", d)
    \/ calls < MaxStoreCalls /\ \E d \in RemoveDocs : RemoveDocument("k1", d)

SpecStore == Init /\ [][NextStore]_vars

\* Many calls of one argument each, two connections, and the clock.
RateUpsert == [_id |-> Some("i1"), title |-> Some(CmdA), body |-> None, stderr |-> None]
RateRemove == [_id |-> Some("i1")]

NextRate ==
    \/ calls < MaxRateCalls /\ \E conn \in Conns : UpsertDocument(conn, RateUpsert)
    \/ calls < MaxRateCalls /\ RemoveDocument("k1", RateRemove)
    \/ calls < MaxRateCalls /\ HLIDocker("k1", [_id |-> None, cmd |-> CmdA])
    \/ calls < MaxRateCalls /\ PublicDocker("k1", [_id |-> None, cmd |-> CmdB])
    \/ Tick(MaxTicks)

SpecRate == Init /\ [][NextRate]_vars

\* Children that write up to and beyond maxBuffer.
Big(k) == Rep("x", k)

BigOut ==
    {<<>>, <<Big(maxBuffer)>>, <<Big(maxBuffer), Big(1)>>,
     <<Big(maxBuffer - 1), Str(<<"y", "z">>)>>}

BigErr == {<<>>, <<Big(maxBuffer)>>, <<Big(maxBuffer), Big(1)>>}

BigBehaviours ==
    {Behaviour("spawn-error", <<>>, <<>>)}
    \cup {Behaviour(st, o, e) : st \in {"exit-0", "exit-1"}, o \in BigOut, e \in BigErr}

NextCapture ==
    \/ calls < MaxCaptureCalls /\ HLIDocker("k1", [_id |-> None, cmd |-> CmdA])
    \/ calls < MaxCaptureCalls /\ PublicDocker("k1", [_id |-> None, cmd |-> CmdB])
    \/ \E p \in BagToSet(running), b \in BigBehaviours, mode \in CaptureModes :
           ExecCallback(p, b, mode)

SpecCapture == Init /\ [][NextCapture]_vars

----------------------------------------------------------------------------
(* The method gateway: a ValidatedMethod runs validate(args), the validator *)
(* of its SimpleSchema, and calls run(args) only when that did not throw.   *)
(* An argument is the object the client sent: key -> typed value.           *)

String(v) == [type |-> "String", val |-> v]
Number(v) == [type |-> "Number", val |-> v]

Key(t, o) == [type |-> t, optional |-> o]

\* new SimpleSchema({ ... }) of the four methods
UpsertSchema ==
    [_id    |-> Key("String", TRUE), title  |-> Key("String", TRUE),
     body   |-> Key("String", TRUE), stderr |-> Key("String", TRUE)]
RemoveSchema == [_id |-> Key("String", FALSE)]
HLISchema == [_id |-> Key("String", TRUE), cmd |-> Key("String", TRUE)]
PublicSchema == [_id |-> Key("String", TRUE), cmd |-> Key("String", TRUE)]

SchemaOf(method) ==
    CASE method = "documents.upsert" -> UpsertSchema
      [] method = "documents.remove" -> RemoveSchema
      [] method = "docker.hli"       -> HLISchema
      [] method = "docker.public"    -> PublicSchema

\* A validator that checks the keys and forgets their types.
ValidateKeysOnly(schema, arg) ==
    /\ \A k \in DOMAIN arg : k \in DOMAIN schema
    /\ \A k \in DOMAIN schema : ~schema[k].optional => k \in DOMAIN arg

\* schema.validator(): every key of the object is declared and of the
\* declared type, every key that is not optional is there.
Validate(schema, arg) ==
    /\ \A k \in DOMAIN arg : k \in DOMAIN schema /\ arg[k].type = schema[k].type
    /\ \A k \in DOMAIN schema : ~schema[k].optional => k \in DOMAIN arg

\* The object as the method bodies read it: a key that is missing is None.
KeyOf(arg, k) == IF k \in DOMAIN arg THEN Some(arg[k].val) ELSE None

ToDocument(method, arg) ==
    CASE method = "documents.upsert" ->
             [_id  |-> KeyOf(arg, "_id"),  title  |-> KeyOf(arg, "title"),
              body |-> KeyOf(arg, "body"), stderr |-> KeyOf(arg, "stderr")]
      [] method = "documents.remove" -> [_id |-> KeyOf(arg, "_id")]
      [] OTHER -> [_id |-> KeyOf(arg, "_id"), cmd |-> arg.cmd.val]

\* run(args) of the method
MethodRun(method, conn, document) ==
    CASE method = "documents.upsert" -> UpsertDocument(conn, document)
      [] method = "documents.remove" -> RemoveDocument(conn, document)
      [] method = "docker.hli"       -> HLIDocker(conn, document)
      [] method = "docker.public"    -> PublicDocker(conn, document)

\* validate(args) threw: the call fails with a validation error.
Rejected(method, conn) ==
    /\ ~crashed
    /\ Limiter(method, conn)
    /\ last' = [method |-> method, conn |-> conn, document |-> [_id |-> None],
                status |-> IF Allowed(method, conn) THEN "validation-error"
                           ELSE "too-many-requests",
                repeat |-> FALSE]
    /\ calls' = calls + 1
    /\ UNCHANGED <<store, running, crashed, now, execLog, overlap, direct,
                   removed, given>>

\* Meteor.call(method, arg) from connection conn
Call(method, conn, arg) ==
    IF Validate(SchemaOf(method), arg)
    THEN MethodRun(method, conn, ToDocument(method, arg))
    ELSE Rejected(method, conn)

\* Arguments, well formed and not: a key of the wrong type, a key the schema
\* does not declare, a required key left out.
UpsertArgs ==
    {[_id |-> String("i1"), title |-> String(CmdA)],
     [_id |-> String("i1"), body |-> String(Hi)],
     [_id |-> Number("i1"), title |-> String(CmdA)],
     [title |-> String(CmdB), body |-> Number(Hi)],
     [title |-> String(CmdA), extra |-> String(Hi)]}

RemoveArgs ==
    {[_id |-> String("i1")],
     [_id |-> Number("i1")],
     [_id |-> String("i1"), extra |-> String(Hi)],
     [k \in {} |-> String("i1")]}

DockerArgs ==
    {[cmd |-> String(CmdA)],
     [_id |-> String("i1"), cmd |-> String(CmdB)],
     [cmd |-> Number(CmdA)],
     [_id |-> Number("i1"), cmd |-> String(CmdA)],
     [cmd |-> String(CmdB), extra |-> String(Hi)]}

ArgsOf(method) ==
    CASE method = "documents.upsert" -> UpsertArgs
      [] method = "documents.remove" -> RemoveArgs
      [] OTHER -> DockerArgs

NextGateway ==
    \/ /\ calls < MaxGatewayCalls
       /\ \E a \in UpsertArgs : Call("documents.upsert", "k1", a)
    \/ /\ calls < MaxGatewayCalls
       /\ \E a \in RemoveArgs : Call("documents.remove", "k1", a)
    \/ /\ calls < MaxGatewayCalls
       /\ \E a \in DockerArgs : Call("docker.hli", "k1", a)
    \/ /\ calls < MaxGatewayCalls
       /\ \E a \in DockerArgs : Call("docker.public", "k1", a)
    \/ \E p \in BagToSet(running), b \in Behaviours : ExecCallback(p, b, "cut")

SpecGateway == Init /\ [][NextGateway]_vars

----------------------------------------------------------------------------
(* What the claims speak of. *)

\* The exec invocations for command c, and the dispatches of c that skipped.
Spawned(c) == execLog["docker.hli"][c].spawned + execLog["docker.public"][c].spawned
Skipped(c) == execLog["docker.hli"][c].skipped + execLog["docker.public"][c].skipped

\* The Records whose title is c.
Titled(c) == {i \in DOMAIN store : store[i].title = Some(c)}

NonEmpty(o) == IsSome(o) /\ Get(o) /= EmptyText

\* The Records of title c that hold output.
WithOutput(c) ==
    {i \in Titled(c) : NonEmpty(store[i].body) \/ NonEmpty(store[i].stderr)}

\* The step is a call of a dispatch method with cmd = c.
DispatchStep(c) ==
    /\ calls' = calls + 1
    /\ last'.method \in DockerMethods
    /\ last'.document.cmd = c

\* The step is the callback of child p: only a callback takes a child away.
CallbackStep(p) == BagIn(p, running) /\ running' = running (-) SetToBag({p})

\* The Records the step added.
Added == DOMAIN store' \ DOMAIN store

----------------------------------------------------------------------------
\* C1: a command dispatched again after its process has completed and its
\* Record is written is not run again: as long as no two children of the
\* command were in flight together and no documents.* call wrote, overwrote
\* or removed a Record of that title, the whole run has spawned at most one
\* process for it, and once that process is done the store holds exactly one
\* Record of that title.
DedupIdempotence ==
    \A c \in Cmds :
        c \notin overlap \cup direct \cup removed =>
            /\ Spawned(c) <= 1
            /\ Cardinality(Titled(c)) <= 1
            /\ (Spawned(c) = 1 /\ c \notin RunningCmds /\ ~crashed
                    => Cardinality(Titled(c)) = 1)

\* The same dispatch call made twice, the second after the Record was written.
DedupIdempotenceWitness ==
    \E c \in Cmds :
        /\ c \notin overlap \cup direct \cup removed
        /\ last.method \in DockerMethods /\ last.repeat /\ last.document.cmd = c
        /\ Spawned(c) = 1 /\ Skipped(c) = 1
        /\ Cardinality(Titled(c)) = 1

----------------------------------------------------------------------------
\* The Records of title c whose body is an error payload.
FailedRecords(c) ==
    {i \in Titled(c) :
        IsSome(store[i].body) /\ IsSome(JsonParseError(Get(store[i].body)))}

\* Record rec carries the four fields, and command c as its title.
Carries(rec, c) ==
    /\ rec.title = Some(c)
    /\ IsSome(rec.body) /\ IsSome(rec.stderr) /\ IsSome(rec.createdAt)

\* C2 (as stated): whatever the outcome of the process, the completion
\* callback of a spawned child performs one upsert, which writes one Record
\* carrying the command as title, a body, a stderr and a createdAt.
EveryExitWritesRecord ==
    [][\A p \in BagToSet(running) :
          CallbackStep(p) =>
              /\ Cardinality(Added) = 1
              /\ \A i \in Added : Carries(store'[i], p.document.cmd)]_vars

\* C3 (as stated): the Record the callback of a child dispatched with a
\* pre-supplied _id persists is the Record of that _id.
RecordKeyedBySuppliedId ==
    [][\A p \in BagToSet(running) :
          (CallbackStep(p) /\ ~crashed' /\ IsSome(p.document._id)) =>
              /\ Get(p.document._id) \in DOMAIN store'
              /\ Carries(store'[Get(p.document._id)], p.document.cmd)]_vars

\* C4: when exec reports an error and stdout is empty (the process could not
\* be launched, or failed without output), the callback adds a Record for the
\* command whose body decodes, as JSON, to { error: <the error's text> }.
FailureVisibility ==
    [][\A p \in BagToSet(running) :
          (CallbackStep(p) /\ given'.err /= Null /\ given'.stdout = EmptyText)
              => \E i \in Added :
                     /\ Carries(store'[i], p.document.cmd)
                     /\ Get(store'[i].body) /= EmptyText
                     /\ JsonParseError(Get(store'[i].body))
                            = Some(ErrToString(given'.err))]_vars

\* A Record of a command that could not be launched is in the store.
FailureVisibilityWitness ==
    \E c \in Cmds : \E i \in Titled(c) :
        /\ IsSome(store[i].body)
        /\ JsonParseError(Get(store[i].body))
               = Some(ErrToString(Error(SpawnMessage)))
        /\ store[i].stderr = Some(EmptyText)

\* C5 (as stated): re-submitting command c when the Record of a failed run of
\* c is in the store spawns the external process again.
RetryAfterFailureRespawns ==
    [][\A c \in Cmds :
          (DispatchStep(c) /\ FailedRecords(c) /= {})
              => Spawned(c)' = Spawned(c) + 1]_vars

\* C5 (amended): re-submitting command c when the Record of a failed run of c
\* is in the store spawns nothing and writes nothing: the dedup check counts
\* the failed run as already run.
RetryAfterFailureSkips ==
    [][\A c \in Cmds :
          (DispatchStep(c) /\ FailedRecords(c) /= {})
              => /\ running' = running
                 /\ Spawned(c)' = Spawned(c)
                 /\ Skipped(c)' = Skipped(c) + 1
                 /\ store' = store]_vars

\* Command c failed, its Record was written, and c was submitted again.
RetryAfterFailureWitness ==
    \E c \in Cmds :
        /\ FailedRecords(c) /= {}
        /\ c \notin direct
        /\ last.method \in DockerMethods /\ last.document.cmd = c
        /\ Spawned(c) = 1 /\ Skipped(c) = 1

----------------------------------------------------------------------------
\* The calls of dispatch method m that ran their body.
Dispatched(m) ==
    execLog[m][CmdA].spawned + execLog[m][CmdA].skipped
    + execLog[m][CmdB].spawned + execLog[m][CmdB].skipped

\* C6 (as stated): docker.hli and docker.public are rate-limited: within one
\* window of 1000 ms no more than 5 calls of a dispatch method by one caller
\* get to the dedup check or spawn a process.
DispatchRateLimited ==
    now < 1000 => \A m \in DockerMethods : Dispatched(m) <= 5

\* The step is a call of method m by connection k.
CallStep(m, k) ==
    calls' = calls + 1 /\ last'.method = m /\ last'.conn = k

\* The calls of m by k counted in the window the next call falls in.
InWindow(m, k) ==
    IF now - lastResetTime > 1000 THEN 0 ELSE counters[<<m, k>>]

\* What the body of documents.upsert or documents.remove makes of the store.
RunOf(m, document) ==
    IF m = "documents.upsert" THEN UpsertDocumentRun(store, document)
    ELSE RemoveDocumentRun(store, document)

\* C7: for documents.upsert and documents.remove, every call is counted in
\* the caller's window of 1000 ms; a call by a caller with fewer than 5 calls
\* of the method in the current window succeeds and does its work (so does
\* every call made once the window has elapsed); a call by a caller with 5 or
\* more is refused with too-many-requests and leaves the store unchanged.
RateLimitBoundary ==
    [][\A m \in {"documents.upsert", "documents.remove"}, k \in Conns :
          CallStep(m, k) =>
              /\ counters'[<<m, k>>] = InWindow(m, k) + 1
              /\ IF InWindow(m, k) < 5
                 THEN /\ last'.status = "ok"
                      /\ store' = RunOf(m, last'.document)
                 ELSE /\ last'.status = "too-many-requests"
                      /\ store' = store]_vars

\* A sixth documents.upsert within the window has just been refused.
RateLimitBoundaryWitness ==
    /\ last.method = "documents.upsert"
    /\ last.status = "too-many-requests"
    /\ counters[<<"documents.upsert", last.conn>>] = 6
    /\ now - lastResetTime <= 1000

----------------------------------------------------------------------------
DocumentedCap == 1000 * 1000

BodyLen(i) == IF IsSome(store[i].body) THEN TextLen(Get(store[i].body)) ELSE 0
StderrLen(i) == IF IsSome(store[i].stderr) THEN TextLen(Get(store[i].stderr)) ELSE 0

----------------------------------------------------------------------------
\* C10: a documents.upsert call that repeats the call before it, both with
\* the same _id and fields, leaves the store as the first call left it: the
\* Record of that _id holds the fields given and every other Record and field
\* is as it was.
IdempotentUpsert ==
    [][(/\ CallStep("documents.upsert", "k1")
        /\ last'.repeat
        /\ last.status = "ok" /\ last'.status = "ok"
        /\ IsSome(last'.document._id))
           => /\ store' = store
              /\ Get(last'.document._id) \in DOMAIN store'
              /\ \A f \in {"title", "body", "stderr"} :
                     IsSome(last'.document[f])
                         => store'[Get(last'.document._id)][f] = last'.document[f]]_vars

\* The same upsert was made twice on a Record that had a body the calls did
\* not list: the Record holds the title given and still has its body.
IdempotentUpsertWitness ==
    /\ last.method = "documents.upsert" /\ last.repeat /\ last.status = "ok"
    /\ IsSome(last.document._id)
    /\ IsSome(last.document.title) /\ ~IsSome(last.document.body)
    /\ Get(last.document._id) \in DOMAIN store
    /\ store[Get(last.document._id)].title = last.document.title
    /\ IsSome(store[Get(last.document._id)].body)

----------------------------------------------------------------------------
\* The keys each method declares, and those it requires.
Declared(method) ==
    CASE method = "documents.upsert" -> {"_id", "title", "body", "stderr"}
      [] method = "documents.remove" -> {"_id"}
      [] OTHER -> {"_id", "cmd"}

Required(method) == IF method = "documents.remove" THEN {"_id"} ELSE {}

\* The argument violates the declared shape of the method.
Malformed(method, arg) ==
    \/ \E k \in DOMAIN arg : k \notin Declared(method) \/ arg[k].type /= "String"
    \/ \E k \in Required(method) : k \notin DOMAIN arg

\* C11: a call of any of the four methods with an argument that violates the
\* method's declared shape is rejected with a validation error before the
\* body runs: the store is unchanged and no process is spawned.
ValidationMutatesNothing ==
    [][\A m \in Methods : \A a \in ArgsOf(m) :
          (Malformed(m, a) /\ Call(m, "k1", a))
              => /\ last'.status = "validation-error"
                 /\ store' = store
                 /\ running' = running
                 /\ execLog' = execLog]_vars

\* A malformed dispatch call was rejected when the store held a Record.
ValidationMutatesNothingWitness ==
    /\ last.status = "validation-error"
    /\ last.method \in DockerMethods
    /\ DOMAIN store /= {}

----------------------------------------------------------------------------
\* C12 (as stated): a dispatch of command c made while a child of c is still
\* running and no Record of c is written misses the dedup check and spawns a
\* second process, and the completion callback of each of the racing children
\* performs an upsert, which adds a Record.
DoubleSpawnRace ==
    [][/\ \A c \in Cmds :
              (DispatchStep(c) /\ Titled(c) = {} /\ c \in RunningCmds)
                  => Spawned(c)' = Spawned(c) + 1 /\ c \in overlap'
       /\ \A p \in BagToSet(running) :
              (CallbackStep(p) /\ p.document.cmd \in overlap)
                  => Cardinality(Added) = 1]_vars

----------------------------------------------------------------------------
\* C13 (as stated): while the process of a dispatch of command a has not
\* exited, a dispatch of another command b that misses the dedup check
\* returns with its process spawned and the store as it was, and once the
\* process of b exits its callback writes the Record of b (and no Record of
\* a), the child of a still running.
HungDoesNotBlock ==
    [][\A a \in Cmds, b \in Cmds :
          (a /= b /\ a \in RunningCmds) =>
              /\ (DispatchStep(b) /\ Titled(b) = {})
                     => /\ Spawned(b)' = Spawned(b) + 1
                        /\ b \in RunningCmds'
                        /\ store' = store
              /\ \A p \in BagToSet(running) :
                     (p.document.cmd = b /\ CallbackStep(p))
                         => /\ Cardinality(Added) = 1
                            /\ \A i \in Added : Carries(store'[i], b)
                            /\ a \in RunningCmds']_vars

----------------------------------------------------------------------------
\* C14: a dispatch call with cmd = c made while the store holds a Record of
\* title c returns without spawning: no child is added (so no callback will
\* ever follow from the call) and the store is exactly as it was.
CacheHitEffectFree ==
    [][\A c \in Cmds :
          (DispatchStep(c) /\ Titled(c) /= {})
              => /\ store' = store
                 /\ running' = running
                 /\ Spawned(c)' = Spawned(c)]_vars

\* A dispatch call, not a repeat of the call before it, hit the Record that
\* the one run of its command had written.
CacheHitEffectFreeWitness ==
    \E c \in Cmds :
        /\ last.method \in DockerMethods /\ last.document.cmd = c
        /\ ~last.repeat
        /\ Titled(c) /= {}
        /\ Spawned(c) = 1 /\ Skipped(c) = 1
        /\ running = EmptyBag

----------------------------------------------------------------------------
\* The command lines of the two entry points differ, and only in what stands
\* before the cmd of the argument.
CommandsDifferByPrefix ==
    \A d \in DockerDocs :
        /\ HLICommand(d) /= PublicCommand(d)
        /\ TextDrop(HLICommand(d), TextLen(HLIPrefix)) = d.cmd
        /\ TextDrop(PublicCommand(d), TextLen(PublicPrefix)) = d.cmd

\* C15: docker.hli and docker.public agree on everything but the command
\* line: in every reachable store, for every argument, they take the same
\* spawn or skip decision; given the (err, stdout, stderr) a callback
\* received, both throw or neither does, and they write the same fields
\* under the same selector; the command lines they pass to exec differ, and
\* only in what stands before the cmd of the argument.
EntryPointsEquivalent ==
    /\ CommandsDifferByPrefix
    /\ \A d \in DockerDocs :
           /\ HLIAlreadyRun(store, d) = PublicAlreadyRun(store, d)
           /\ HLIOutputId(d) = PublicOutputId(d)
    /\ HLIThrows(given) = PublicThrows(given)
    /\ ~HLIThrows(given) =>
           \A d \in DockerDocs :
               HLIOutput(d, given, now) = PublicOutput(d, given, now)

\* Both entry points have spawned, a Record is written, and the last callback
\* was given an error and no stdout.
EntryPointsEquivalentWitness ==
    /\ \E c \in Cmds : execLog["docker.hli"][c].spawned >= 1
    /\ \E c \in Cmds : execLog["docker.public"][c].spawned >= 1
    /\ DOMAIN store /= {}
    /\ given.err /= Null /\ given.stdout = EmptyText

----------------------------------------------------------------------------
\* The step is a documents.remove call with _id = i that was let through.
RemoveStep(i) ==
    /\ calls' = calls + 1
    /\ last'.method = "documents.remove"
    /\ last'.status = "ok"
    /\ last'.document._id = Some(i)

\* C16: a Record leaves the store only in a documents.remove call with its
\* _id, and that call removes no other Record; documents.upsert, the dispatch
\* methods and the callbacks delete nothing; a documents.remove call with an
\* _id that no Record has succeeds and leaves the store unchanged.
DestroyedOnlyByRemove ==
    [][/\ \A i \in DOMAIN store : i \notin DOMAIN store' => RemoveStep(i)
       /\ \A i \in Ids \cup DOMAIN store :
              RemoveStep(i) =>
                  /\ \A j \in DOMAIN store \ {i} :
                         j \in DOMAIN store' /\ store'[j] = store[j]
                  /\ i \notin DOMAIN store => store' = store]_vars

\* documents.remove was called with an _id no Record ever had, and the
\* Record the store held is still there.
DestroyedOnlyByRemoveWitness ==
    /\ last.method = "documents.remove" /\ last.status = "ok"
    /\ Get(last.document._id) \notin DOMAIN store
    /\ direct = {} /\ removed = {}
    /\ DOMAIN store /= {}

----------------------------------------------------------------------------
OtherRuntime(m) == IF m = "docker.hli" THEN "docker.public" ELSE "docker.hli"

\* C17: when the store holds a Record of title c that a run of c through one
\* dispatch method has written (c was spawned by that method only, and no
\* documents.upsert call wrote the title), a call of the other dispatch
\* method with cmd = c spawns nothing: c is not executed in the second
\* runtime.
DedupIgnoresRuntime ==
    [][\A c \in Cmds, m \in DockerMethods :
          (/\ DispatchStep(c) /\ last'.method = m
           /\ Titled(c) /= {} /\ c \notin direct
           /\ execLog[OtherRuntime(m)][c].spawned >= 1
           /\ execLog[m][c].spawned = 0)
              => /\ execLog'[m][c].spawned = 0
                 /\ execLog'[m][c].skipped = execLog[m][c].skipped + 1
                 /\ running' = running]_vars

\* Command c ran through docker.hli, its Record is written, and docker.public
\* was then called with c and skipped.
DedupIgnoresRuntimeWitness ==
    \E c \in Cmds :
        /\ last.method = "docker.public" /\ last.document.cmd = c
        /\ Titled(c) /= {} /\ c \notin direct
        /\ execLog["docker.hli"][c].spawned = 1
        /\ execLog["docker.public"][c].spawned = 0
        /\ execLog["docker.public"][c].skipped = 1

----------------------------------------------------------------------------
\* The Records of title c with neither body nor stderr: only documents.upsert
\* makes such a Record.
Reserved(c) ==
    {i \in Titled(c) : ~IsSome(store[i].body) /\ ~IsSome(store[i].stderr)}

\* C18: while the store holds a Record of title c that documents.upsert
\* created without body and stderr, every dispatch call with cmd = c returns
\* without spawning and writes nothing, and no callback changes that Record:
\* no dispatch fills in its body or stderr.
ReservedCountsAsRun ==
    [][\A c \in Cmds :
          Reserved(c) /= {} =>
              /\ DispatchStep(c)
                     => /\ running' = running
                        /\ Spawned(c)' = Spawned(c)
                        /\ store' = store
              /\ (\E p \in BagToSet(running) : CallbackStep(p))
                     => \A i \in Reserved(c) :
                            i \in DOMAIN store' /\ store'[i] = store[i]]_vars

\* A Record of title c was created by documents.upsert alone, and a dispatch
\* of c, never run, was skipped.
ReservedCountsAsRunWitness ==
    \E c \in Cmds :
        /\ Reserved(c) /= {}
        /\ last.method \in DockerMethods /\ last.document.cmd = c
        /\ Spawned(c) = 0 /\ Skipped(c) = 1

====
